---------------------------- MODULE Spec2Model ----------------------------
(***************************************************************************)
(* Staging / review / promotion pipeline of routers/exo.py.                *)
(*                                                                         *)
(* The relational store is modelled as three committed tables (staging,    *)
(* canonical, events) plus, for every request in flight, the writes of its *)
(* open transaction (tx).  A request sees the committed tables and its own *)
(* pending writes (READ COMMITTED); a statement issued outside             *)
(* db.transaction() commits at once.  Each request handler is cut into one *)
(* action per awaited store statement, so concurrent requests interleave   *)
(* exactly at the suspension points of the code.                           *)
(*                                                                         *)
(* Assumed of the deployment: the Database handle of line 27 is connected, *)
(* and the store is PostgreSQL (now(), ILIKE, ON CONFLICT), so now() is    *)
(* the start time of the transaction, an INSERT that meets an uncommitted  *)
(* row with the same unique value waits for that transaction, and so does  *)
(* an UPDATE of a row another open transaction updated.  Columns that no   *)
(* statement of the code reads back (builder, location, metrics, media,    *)
(* cured_at, updated_at, ...) are left out of the rows; reviewer_id and    *)
(* reviewer_name, always written together, are one field.  Of the opaque   *)
(* JSON-typed columns, materials stands for the required one and core_fill *)
(* for the optional ones (batches, photo_urls, doc_urls are handled as     *)
(* core_fill is, line for line).  nreq counts the requests that take more  *)
(* than one step; export_approved, one statement and one step, is not      *)
(* counted.                                                                *)
(***************************************************************************)
EXTENDS Integers, Sequences, FiniteSets, Bags, TLC

\* ------------------------------------------------------------------ bounds
MaxReq == 3      \* requests started in one behaviour
MaxBatch == 2    \* items in one intake body
MaxLimit == 2    \* limit of a list_staging call (the code takes 1..500)
MaxOffset == 2   \* offset of a list_staging call (the code takes any offset >= 0)

\* ------------------------------------------------------------------ domains
Procs == {1, 2}
Keys == {1, 2}                    \* idempotency keys submitted
NULL == "NULL"
Refs == {NULL, "ext-1"}           \* external_ref: absent, or one reference
Ids == 1..(2 * Cardinality(Keys))  \* identities (uuid4 values) in play
Reviewers == {NULL, "rev-1"}      \* reviewer_id / reviewer_name pair
Actions == {"APPROVE", "REJECT", "MARK_CURED"}
StatusPattern == {"poured", "curing", "cured", "installed", "damaged", "retired"}
ReviewStatuses == {"PENDING", "APPROVED", "REJECTED"}

\* An opaque JSON-typed field on the wire or in a column: a structured value (an
\* object, or null), or the string that json.dumps makes of one.
Dict == [enc |-> "value", of |-> "object"]
None == [enc |-> "value", of |-> "null"]
JsonDumps(v) == [enc |-> "string", of |-> v.of]

\* One submitted item, as far as intake reads it: the items that pass the schema,
\* and one that does not (nothing else of it is ever read).
Items ==
    [idempotency_key : Keys, external_ref : Refs, status : {"poured"},
     materials : {Dict}, core_fill : {None}]
      \cup {[idempotency_key |-> 1, external_ref |-> NULL, status |-> "bogus",
              materials |-> Dict, core_fill |-> None]}

RECURSIVE SeqsUpTo(_, _)
SeqsUpTo(S, n) ==
    IF n = 0 THEN {<<>>}
    ELSE LET shorter == SeqsUpTo(S, n - 1)
         IN  shorter \cup {Append(s, x) : s \in {t \in shorter : Len(t) = n - 1}, x \in S}

\* Raw request bodies: bytes that are no JSON, one JSON object, or a JSON array.
Bodies ==
    {[json |-> "garbage", items |-> <<>>]}
      \cup {[json |-> "object", items |-> <<it>>] : it \in Items}
      \cup {[json |-> "array", items |-> s] : s \in SeqsUpTo(Items, MaxBatch)}

\* ------------------------------------------------------------------ signature
HMAC_SECRET == 2
DigestSpace == 3
NonAscii == DigestSpace           \* a header value holding a non-ASCII character
Sigs == 0..DigestSpace

ItemCode(it) ==
    it.idempotency_key * 4 + (IF it.external_ref = NULL THEN 0 ELSE 2)
      + (IF it.status = "poured" THEN 0 ELSE 1)

RECURSIVE BytesCode(_)
BytesCode(s) ==
    IF s = <<>> THEN 1 ELSE (ItemCode(Head(s)) + 3 * BytesCode(Tail(s))) % DigestSpace

RawCode(raw) ==
    (CASE raw.json = "garbage" -> 0
       [] raw.json = "object" -> 1
       [] OTHER -> 2) + 3 * BytesCode(raw.items)

\* hmac.new(secret, raw, sha256).hexdigest(): a keyed digest of the raw bytes.
HexDigest(raw) == (HMAC_SECRET + RawCode(raw)) % DigestSpace

\* hmac.compare_digest raises TypeError on a str with non-ASCII characters.
verify_hmac(raw, sig) ==
    IF sig = NonAscii THEN "raise" ELSE IF HexDigest(raw) = sig THEN "true" ELSE "false"

\* json.loads(raw), then items = payload if isinstance(payload, list) else [payload]
JsonLoads(raw) == IF raw.json = "garbage" THEN "raise" ELSE "ok"
ItemsOf(raw) == raw.items

\* ExoPayload(**it): the status pattern of the schema, materials an object
\* (Materials), core_fill an object or null (Optional[dict]); a str is neither.
Validates(it) ==
    /\ it.status \in StatusPattern
    /\ it.materials = Dict
    /\ it.core_fill \in {Dict, None}

\* ------------------------------------------------------------------ state
VARIABLES
    staging,     \* committed rows of exo_blocks_staging
    canonical,   \* committed rows of exo_blocks
    events,      \* committed rows of exo_block_events (a bag: ids are fresh uuid4s)
    changes,     \* history: committed writes to staging rows, by row and kind
    clock,       \* the store's now()
    nreq,        \* requests started so far
    pc,          \* per request slot: the statement it is about to run
    loc,         \* per request slot: the handler's local variables
    tx,          \* per request slot: the writes of its open transaction
    resp         \* per request slot: the response of its last request

vars == <<staging, canonical, events, changes, clock, nreq, pc, loc, tx, resp>>
store == <<staging, canonical, events>>

NoRaw == [json |-> "none", items |-> <<>>]
NoLoc == [raw |-> NoRaw, x_signature |-> 0, items |-> <<>>, i |-> 0, created |-> <<>>,
          bid |-> 0, id |-> 0, action |-> NULL, reviewer |-> NULL,
          review_status |-> NULL, external_ref |-> NULL, limit |-> 0, offset |-> 0,
          rows |-> <<>>]
NoTx == [open |-> FALSE, now |-> 0, rows |-> {}, upd |-> {}, canon |-> {},
         evts |-> EmptyBag]
NoResp == [code |-> "none", detail |-> NULL, created |-> <<>>, state |-> NULL,
           total |-> 0, limit |-> 0, offset |-> 0, items |-> <<>>]

Init ==
    /\ staging = {}
    /\ canonical = {}
    /\ events = EmptyBag
    /\ changes = EmptyBag
    /\ clock = 1
    /\ nreq = 0
    /\ pc = [p \in Procs |-> "idle"]
    /\ loc = [p \in Procs |-> NoLoc]
    /\ tx = [p \in Procs |-> NoTx]
    /\ resp = [p \in Procs |-> NoResp]

\* ------------------------------------------------------------------ store
Event(bid, tbl, type, payload) ==
    [block_id |-> bid, table_name |-> tbl, event_type |-> type, payload |-> payload]

Change(bid, kind) == [block_id |-> bid, kind |-> kind]

\* Rows of exo_blocks_staging that a statement of p reads.
VisibleStaging(p) == staging \cup tx[p].rows

\* uuid.uuid4(): an identity no row or request holds.
UsedIds ==
    {r.id : r \in staging} \cup UNION {{r.id : r \in tx[q].rows} : q \in Procs}
      \cup {loc[q].bid : q \in Procs}
FreshIds == Ids \ UsedIds
uuid4 == CHOOSE i \in FreshIds : \A j \in FreshIds : i <= j

\* db.transaction().__aenter__: BEGIN.
Begin == [NoTx EXCEPT !.open = TRUE, !.now = clock]

\* UPDATE ... WHERE id=:id of an open transaction, applied to a committed row.
ApplyUpd(r, upd) ==
    IF \E u \in upd : u.id = r.id
    THEN LET u == CHOOSE u \in upd : u.id = r.id
         IN  [r EXCEPT !.review_status = u.review_status, !.reviewer = u.reviewer,
                       !.reviewed_at = u.reviewed_at]
    ELSE r

\* db.transaction().__aexit__ without an exception: COMMIT.
CommitStore(p) ==
    /\ staging' = {ApplyUpd(r, tx[p].upd) : r \in staging} \cup tx[p].rows
    /\ canonical' = canonical \cup tx[p].canon
    /\ events' = events (+) tx[p].evts
    /\ changes' = changes
                    (+) SetToBag({Change(r.id, "INGEST") : r \in tx[p].rows})
                    (+) SetToBag({Change(u.id, "APPROVE") : u \in tx[p].upd})

\* The handler returns or raises: the response goes out, the locals are dropped,
\* an open transaction is gone (committed before, or rolled back by the raise).
Respond(p, code, detail, created, state) ==
    /\ resp' = [resp EXCEPT ![p] = [NoResp EXCEPT !.code = code, !.detail = detail,
                                                  !.created = created, !.state = state]]
    /\ pc' = [pc EXCEPT ![p] = "idle"]
    /\ loc' = [loc EXCEPT ![p] = NoLoc]
    /\ tx' = [tx EXCEPT ![p] = NoTx]

\* raise HTTPException(status_code, ...): no transaction is open where the code
\* does it.
HttpError(p, code) ==
    /\ Respond(p, code, NULL, <<>>, NULL)
    /\ UNCHANGED <<staging, canonical, events, changes>>

\* Any other exception leaves the handler: db.transaction().__aexit__ rolls the
\* open transaction back (if any) and the framework answers 500.
Raise(p, exc) ==
    /\ Respond(p, "error", exc, <<>>, NULL)
    /\ UNCHANGED <<staging, canonical, events, changes>>

\* ------------------------------------------------------------------ constraints
\* exo_blocks_staging.idempotency_key is unique.
StagingKeyUnique == TRUE
\* exo_blocks.id is the primary key.
CanonIdUnique == TRUE
\* exo_blocks.external_ref is unique: the arbiter of ON CONFLICT (external_ref).
CanonRefUnique == TRUE

\* The INSERT of p waits for the open transaction q that holds a row with the same
\* unique value until q commits or rolls back.
StagingInsertWaitsFor(p, k) ==
    {q \in Procs \ {p} : StagingKeyUnique /\ \E r \in tx[q].rows : r.idempotency_key = k}

CanonInsertWaitsFor(p, src) ==
    {q \in Procs \ {p} :
        \E c \in tx[q].canon :
            \/ CanonRefUnique /\ src.external_ref # NULL /\ c.external_ref = src.external_ref
            \/ CanonIdUnique /\ c.id = src.id}

\* The unique index on idempotency_key rejects the row.
KeyViolation(p, k) ==
    StagingKeyUnique /\ \E r \in staging \cup tx[p].rows : r.idempotency_key = k

\* A row-level write lock: the UPDATE of p waits for the open transaction that
\* updated the same row.
UpdateWaitsFor(p, id) == {q \in Procs \ {p} : \E u \in tx[q].upd : u.id = id}

\* ------------------------------------------------------------------ intake
KeyExistsNever(p, k) == FALSE

\* SELECT id FROM exo_blocks_staging WHERE idempotency_key=:k
KeyExists(p, k) == \E r \in VisibleStaging(p) : r.idempotency_key = k

StagingRow(bid, it, now) ==
    [id |-> bid, idempotency_key |-> it.idempotency_key,
     external_ref |-> it.external_ref, status |-> it.status,
     materials |-> JsonDumps(it.materials), core_fill |-> JsonDumps(it.core_fill),
     review_status |-> "PENDING", reviewer |-> NULL, reviewed_at |-> 0,
     created_at |-> now]

\* Lines 99-110: verify the signature, parse, open the transaction.
Verified(p, raw, x_signature) ==
    LET ok == verify_hmac(raw, x_signature) IN
    IF ok = "raise" THEN
        /\ Raise(p, "TypeError")
        /\ UNCHANGED clock
    ELSE IF ok = "false" THEN
        /\ HttpError(p, "unauthorized")
        /\ UNCHANGED clock
    ELSE IF JsonLoads(raw) = "raise" THEN
        /\ HttpError(p, "bad_request")
        /\ UNCHANGED clock
    ELSE
        /\ pc' = [pc EXCEPT ![p] = "in_select"]
        /\ loc' = [loc EXCEPT ![p] = [NoLoc EXCEPT !.items = ItemsOf(raw), !.i = 1]]
        /\ tx' = [tx EXCEPT ![p] = Begin]
        /\ clock' = clock + 1
        /\ resp' = [resp EXCEPT ![p] = NoResp]
        /\ UNCHANGED <<staging, canonical, events, changes>>

\* Line 98: raw = await request.body(), with the X-Signature header.
IntakeReceive(p) ==
    /\ pc[p] = "idle"
    /\ nreq' = nreq + 1
    /\ \E raw \in Bodies, x_signature \in Sigs :
          loc' = [loc EXCEPT ![p] = [NoLoc EXCEPT !.raw = raw, !.x_signature = x_signature]]
    /\ pc' = [pc EXCEPT ![p] = "in_verify"]
    /\ resp' = [resp EXCEPT ![p] = NoResp]
    /\ UNCHANGED <<staging, canonical, events, changes, clock, tx>>

IntakeVerify(p) ==
    /\ pc[p] = "in_verify"
    /\ Verified(p, loc[p].raw, loc[p].x_signature)
    /\ UNCHANGED nreq

\* Lines 98-110 in one step (no other request can tell the two steps apart).
IntakeBegin(p) ==
    /\ pc[p] = "idle"
    /\ nreq' = nreq + 1
    /\ \E raw \in Bodies, x_signature \in Sigs : Verified(p, raw, x_signature)

\* The item the loop of line 111 is at.
Cur(p) == loc[p].items[loc[p].i]

\* Lines 111-122: validate the next item, look its idempotency_key up, and either
\* skip it or draw its identity.
IntakeSelect(p) ==
    /\ pc[p] = "in_select"
    /\ loc[p].i <= Len(loc[p].items)
    /\ IF ~Validates(Cur(p)) THEN
           Raise(p, "ValidationError")
       ELSE IF KeyExists(p, Cur(p).idempotency_key) THEN
           /\ loc' = [loc EXCEPT ![p].i = @ + 1]
           /\ UNCHANGED <<staging, canonical, events, changes, pc, tx, resp>>
       ELSE
           /\ FreshIds # {}
           /\ loc' = [loc EXCEPT ![p].bid = uuid4, ![p].created = Append(@, uuid4)]
           /\ pc' = [pc EXCEPT ![p] = "in_insert"]
           /\ UNCHANGED <<staging, canonical, events, changes, tx, resp>>
    /\ UNCHANGED <<clock, nreq>>

\* The INSERT of line 141 issued outside the transaction.
IntakeInsertAutocommit(p) ==
    /\ pc[p] = "in_insert"
    /\ StagingInsertWaitsFor(p, Cur(p).idempotency_key) = {}
    /\ IF KeyViolation(p, Cur(p).idempotency_key) THEN
           Raise(p, "UniqueViolation")
       ELSE
           /\ staging' = staging \cup {StagingRow(loc[p].bid, Cur(p), tx[p].now)}
           /\ changes' = changes (+) SetToBag({Change(loc[p].bid, "INGEST")})
           /\ pc' = [pc EXCEPT ![p] = "in_event"]
           /\ UNCHANGED <<canonical, events, loc, tx, resp>>
    /\ UNCHANGED <<clock, nreq>>

\* Lines 123-168: INSERT INTO exo_blocks_staging.
IntakeInsert(p) ==
    /\ pc[p] = "in_insert"
    /\ StagingInsertWaitsFor(p, Cur(p).idempotency_key) = {}
    /\ IF KeyViolation(p, Cur(p).idempotency_key) THEN
           Raise(p, "UniqueViolation")
       ELSE
           /\ tx' = [tx EXCEPT ![p].rows =
                        @ \cup {StagingRow(loc[p].bid, Cur(p), tx[p].now)}]
           /\ pc' = [pc EXCEPT ![p] = "in_event"]
           /\ UNCHANGED <<staging, canonical, events, changes, loc, resp>>
    /\ UNCHANGED <<clock, nreq>>

\* Lines 170-174: INSERT INTO exo_block_events ... 'staging','INGEST'.
IntakeEvent(p) ==
    /\ pc[p] = "in_event"
    /\ tx' = [tx EXCEPT ![p].evts =
                 @ (+) SetToBag({Event(loc[p].bid, "staging", "INGEST", Cur(p).status)})]
    /\ loc' = [loc EXCEPT ![p].i = @ + 1]
    /\ pc' = [pc EXCEPT ![p] = "in_select"]
    /\ UNCHANGED <<staging, canonical, events, changes, clock, nreq, resp>>

\* Lines 110 (exit) and 176: the loop is over, COMMIT, return {"created": created}.
IntakeCommit(p) ==
    /\ pc[p] = "in_select"
    /\ loc[p].i > Len(loc[p].items)
    /\ CommitStore(p)
    /\ Respond(p, "created", NULL, loc[p].created, NULL)
    /\ UNCHANGED <<clock, nreq>>

\* Two intake transactions each wait for the other's uncommitted key: the store
\* breaks the deadlock by failing the statement of one of them.
IntakeDeadlock(p) ==
    /\ pc[p] = "in_insert"
    /\ \E q \in StagingInsertWaitsFor(p, Cur(p).idempotency_key) :
          /\ pc[q] = "in_insert"
          /\ p \in StagingInsertWaitsFor(q, Cur(q).idempotency_key)
    /\ Raise(p, "DeadlockDetected")
    /\ UNCHANGED <<clock, nreq>>

\* ------------------------------------------------------------------ review
StagingById(id) == CHOOSE r \in staging : r.id = id

\* The branch of lines 228, 237, 246 that body.action selects.
Dispatch(p, id, action, reviewer) ==
    /\ pc' = [pc EXCEPT ![p] =
          CASE action = "REJECT" -> "rv_reject_upd"
            [] action = "MARK_CURED" -> "rv_cured_upd"
            [] OTHER -> "rv_app_insert"]
    /\ loc' = [loc EXCEPT ![p] =
          [NoLoc EXCEPT !.id = id, !.action = action, !.reviewer = reviewer]]
    /\ resp' = [resp EXCEPT ![p] = NoResp]
    /\ UNCHANGED tx

\* The row check of line 225 made for APPROVE and REJECT only.
FetchedUncheckedCure(p, id, action, reviewer) ==
    /\ IF (~\E r \in staging : r.id = id) /\ action # "MARK_CURED" THEN
           Respond(p, "not_found", NULL, <<>>, NULL)
       ELSE
           Dispatch(p, id, action, reviewer)
    /\ UNCHANGED <<staging, canonical, events, changes, clock>>

\* Lines 224-228: SELECT the row, 404 if absent, else go by body.action.
Fetched(p, id, action, reviewer) ==
    /\ IF ~\E r \in staging : r.id = id THEN
           Respond(p, "not_found", NULL, <<>>, NULL)
       ELSE
           Dispatch(p, id, action, reviewer)
    /\ UNCHANGED <<staging, canonical, events, changes, clock>>

\* Lines 219-228 in one step: the body is validated upstream.
ReviewBegin(p) ==
    /\ pc[p] = "idle"
    /\ nreq' = nreq + 1
    /\ \E id \in Ids, action \in Actions, reviewer \in Reviewers :
          Fetched(p, id, action, reviewer)

\* Lines 219-223: the path parameter and the validated body arrive.
ReviewReceive(p) ==
    /\ pc[p] = "idle"
    /\ nreq' = nreq + 1
    /\ \E id \in Ids, action \in Actions, reviewer \in Reviewers :
          loc' = [loc EXCEPT ![p] =
                    [NoLoc EXCEPT !.id = id, !.action = action, !.reviewer = reviewer]]
    /\ pc' = [pc EXCEPT ![p] = "rv_select"]
    /\ resp' = [resp EXCEPT ![p] = NoResp]
    /\ UNCHANGED <<staging, canonical, events, changes, clock, tx>>

ReviewSelect(p) ==
    /\ pc[p] = "rv_select"
    /\ Fetched(p, loc[p].id, loc[p].action, loc[p].reviewer)
    /\ UNCHANGED nreq

\* The UPDATE of line 229 followed by a DELETE of the record's canonical row.
RejectUpdateDemotes(p) ==
    /\ pc[p] = "rv_reject_upd"
    /\ UpdateWaitsFor(p, loc[p].id) = {}
    /\ staging' = {IF r.id = loc[p].id
                   THEN [r EXCEPT !.review_status = "REJECTED",
                                  !.reviewer = loc[p].reviewer, !.reviewed_at = clock]
                   ELSE r : r \in staging}
    /\ canonical' = {c \in canonical : c.id # loc[p].id}
    /\ changes' = changes (+) SetToBag({Change(loc[p].id, "REJECT")})
    /\ clock' = clock + 1
    /\ pc' = [pc EXCEPT ![p] = "rv_reject_evt"]
    /\ UNCHANGED <<events, nreq, loc, tx, resp>>

\* Lines 229-232: UPDATE ... SET review_status='REJECTED', outside any transaction.
RejectUpdate(p) ==
    /\ pc[p] = "rv_reject_upd"
    /\ UpdateWaitsFor(p, loc[p].id) = {}
    /\ staging' = {IF r.id = loc[p].id
                   THEN [r EXCEPT !.review_status = "REJECTED",
                                  !.reviewer = loc[p].reviewer, !.reviewed_at = clock]
                   ELSE r : r \in staging}
    /\ changes' = changes (+) SetToBag({Change(loc[p].id, "REJECT")})
    /\ clock' = clock + 1
    /\ pc' = [pc EXCEPT ![p] = "rv_reject_evt"]
    /\ UNCHANGED <<canonical, events, nreq, loc, tx, resp>>

\* Lines 233-235: INSERT INTO exo_block_events ... 'staging','REJECT'.
RejectEvent(p) ==
    /\ pc[p] = "rv_reject_evt"
    /\ events' = events (+) SetToBag({Event(loc[p].id, "staging", "REJECT", NULL)})
    /\ Respond(p, "ok", NULL, <<>>, "REJECTED")
    /\ UNCHANGED <<staging, canonical, changes, clock, nreq>>

\* The UPDATE of line 238 with review_status reset as well.
CuredUpdateReopens(p) ==
    /\ pc[p] = "rv_cured_upd"
    /\ UpdateWaitsFor(p, loc[p].id) = {}
    /\ staging' = {IF r.id = loc[p].id
                   THEN [r EXCEPT !.status = "cured", !.review_status = "PENDING"]
                   ELSE r : r \in staging}
    /\ changes' = changes (+) SetToBag({Change(loc[p].id, "STATUS_CHANGE")})
    /\ clock' = clock + 1
    /\ pc' = [pc EXCEPT ![p] = "rv_cured_evt"]
    /\ UNCHANGED <<canonical, events, nreq, loc, tx, resp>>

\* Lines 238-241: UPDATE ... SET status='cured', outside any transaction.
CuredUpdate(p) ==
    /\ pc[p] = "rv_cured_upd"
    /\ UpdateWaitsFor(p, loc[p].id) = {}
    /\ staging' = {IF r.id = loc[p].id THEN [r EXCEPT !.status = "cured"] ELSE r :
                   r \in staging}
    /\ changes' = changes (+) SetToBag({Change(loc[p].id, "STATUS_CHANGE")})
    /\ clock' = clock + 1
    /\ pc' = [pc EXCEPT ![p] = "rv_cured_evt"]
    /\ UNCHANGED <<canonical, events, nreq, loc, tx, resp>>

\* Lines 242-244: INSERT INTO exo_block_events ... 'staging','STATUS_CHANGE'.
CuredEvent(p) ==
    /\ pc[p] = "rv_cured_evt"
    /\ events' = events (+) SetToBag({Event(loc[p].id, "staging", "STATUS_CHANGE", NULL)})
    /\ Respond(p, "ok", NULL, <<>>, "cured")
    /\ UNCHANGED <<staging, canonical, changes, clock, nreq>>

CanonRow(src, now) ==
    [id |-> src.id, external_ref |-> src.external_ref, status |-> src.status,
     materials |-> src.materials, core_fill |-> src.core_fill, created_at |-> now]

RefConflictNever(p, src) == FALSE

\* ON CONFLICT (external_ref) DO NOTHING: a row with the same non-null
\* external_ref is there (NULLs never conflict), so the INSERT is dropped.
RefConflict(p, src) ==
    /\ src.external_ref # NULL
    /\ \E c \in canonical \cup tx[p].canon : c.external_ref = src.external_ref

\* A unique index that is no arbiter of the ON CONFLICT clause rejects the row.
CanonViolation(p, src) ==
    \E c \in canonical \cup tx[p].canon :
        \/ CanonIdUnique /\ c.id = src.id
        \/ CanonRefUnique /\ src.external_ref # NULL /\ c.external_ref = src.external_ref

\* The INSERT of line 249 issued outside the transaction.
ApproveInsertAutocommit(p) ==
    /\ pc[p] = "rv_app_insert"
    /\ LET src == StagingById(loc[p].id) IN
       /\ CanonInsertWaitsFor(p, src) = {}
       /\ IF RefConflict(p, src) THEN
              canonical' = canonical
          ELSE
              /\ ~CanonViolation(p, src)
              /\ canonical' = canonical \cup {CanonRow(src, clock)}
    /\ tx' = [tx EXCEPT ![p] = Begin]
    /\ pc' = [pc EXCEPT ![p] = "rv_app_upd"]
    /\ clock' = clock + 1
    /\ UNCHANGED <<staging, events, changes, nreq, loc, resp>>

\* Lines 247-265: BEGIN, then INSERT INTO exo_blocks SELECT ... FROM
\* exo_blocks_staging WHERE id=:id ON CONFLICT (external_ref) DO NOTHING.
ApproveInsert(p) ==
    /\ pc[p] = "rv_app_insert"
    /\ LET src == StagingById(loc[p].id) IN
       /\ CanonInsertWaitsFor(p, src) = {}
       /\ IF RefConflict(p, src) THEN
              /\ tx' = [tx EXCEPT ![p] = Begin]
              /\ pc' = [pc EXCEPT ![p] = "rv_app_upd"]
              /\ UNCHANGED <<staging, canonical, events, changes, loc, resp>>
          ELSE IF CanonViolation(p, src) THEN
              Raise(p, "UniqueViolation")
          ELSE
              /\ tx' = [tx EXCEPT ![p] = [Begin EXCEPT !.canon = {CanonRow(src, clock)}]]
              /\ pc' = [pc EXCEPT ![p] = "rv_app_upd"]
              /\ UNCHANGED <<staging, canonical, events, changes, loc, resp>>
    /\ clock' = clock + 1
    /\ UNCHANGED nreq

\* The UPDATE of line 267 skipped when the INSERT was dropped.
ApproveUpdateSkipsDuplicate(p) ==
    /\ pc[p] = "rv_app_upd"
    /\ UpdateWaitsFor(p, loc[p].id) = {}
    /\ tx' = [tx EXCEPT ![p].upd =
                 IF tx[p].canon = {} THEN {}
                 ELSE {[id |-> loc[p].id, review_status |-> "APPROVED",
                        reviewer |-> loc[p].reviewer, reviewed_at |-> tx[p].now]}]
    /\ pc' = [pc EXCEPT ![p] = "rv_app_evt"]
    /\ UNCHANGED <<staging, canonical, events, changes, clock, nreq, loc, resp>>

\* Lines 267-270: UPDATE ... SET review_status='APPROVED', in the transaction.
ApproveUpdate(p) ==
    /\ pc[p] = "rv_app_upd"
    /\ UpdateWaitsFor(p, loc[p].id) = {}
    /\ tx' = [tx EXCEPT ![p].upd =
                 {[id |-> loc[p].id, review_status |-> "APPROVED",
                   reviewer |-> loc[p].reviewer, reviewed_at |-> tx[p].now]}]
    /\ pc' = [pc EXCEPT ![p] = "rv_app_evt"]
    /\ UNCHANGED <<staging, canonical, events, changes, clock, nreq, loc, resp>>

\* Lines 271-272: INSERT INTO exo_block_events ... 'final','APPROVE'.
ApproveEvent(p) ==
    /\ pc[p] = "rv_app_evt"
    /\ tx' = [tx EXCEPT ![p].evts =
                 @ (+) SetToBag({Event(loc[p].id, "final", "APPROVE", NULL)})]
    /\ pc' = [pc EXCEPT ![p] = "rv_app_commit"]
    /\ UNCHANGED <<staging, canonical, events, changes, clock, nreq, loc, resp>>

\* Lines 247 (exit) and 274: COMMIT, return {"ok": True, "state": "APPROVED"}.
ApproveCommit(p) ==
    /\ pc[p] = "rv_app_commit"
    /\ CommitStore(p)
    /\ Respond(p, "ok", NULL, <<>>, "APPROVED")
    /\ UNCHANGED <<clock, nreq>>

\* ------------------------------------------------------------------ queries
\* The rows S in every order a query can return them.
Orders(S) ==
    {s \in [1..Cardinality(S) -> S] :
        \A i \in DOMAIN s : \A j \in DOMAIN s : i < j => s[i] # s[j]}

\* ORDER BY created_at DESC: every order of S that is descending in created_at;
\* rows with equal created_at come in any order.
OrderByCreatedDesc(S) ==
    {s \in Orders(S) :
        \A i \in DOMAIN s : \A j \in DOMAIN s :
            i < j => s[i].created_at >= s[j].created_at}

\* ORDER BY reviewed_at DESC
OrderByReviewedDesc(S) ==
    {s \in Orders(S) :
        \A i \in DOMAIN s : \A j \in DOMAIN s :
            i < j => s[i].reviewed_at >= s[j].reviewed_at}

\* The values of the review_status and external_ref query parameters (NULL: absent).
ReviewFilters == ReviewStatuses \cup {NULL}
RefPatterns == {NULL, "EXT", "zz"}

\* external_ref ILIKE '%pat%': pat occurs in the value, letter case ignored; NULL
\* matches nothing.
Lower(s) == IF s = "EXT" THEN "ext" ELSE s
Occurs(sub, s) == <<sub, s>> \in {<<"ext", "ext-1">>, <<"ext-1", "ext-1">>}
ILike(ref, pat) == ref # NULL /\ Occurs(Lower(pat), Lower(ref))

\* Lines 191-196: the WHERE clause both queries of list_staging share.
Where(r, rs, er) ==
    /\ rs # NULL => r.review_status = rs
    /\ er # NULL => ILike(r.external_ref, er)

\* LIMIT :lim OFFSET :off
LimitOffset(s, limit, offset) ==
    SubSeq(s, offset + 1, IF offset + limit < Len(s) THEN offset + limit ELSE Len(s))

\* Lines 198-202: the pages the first query can return over the rows S.
PageResults(S, rs, er, limit, offset) ==
    {LimitOffset(s, limit, offset) :
        s \in OrderByCreatedDesc({r \in S : Where(r, rs, er)})}

\* Lines 203-205: SELECT count(*) ... WHERE ...
CountResult(S, rs, er) == Cardinality({r \in S : Where(r, rs, er)})

\* Lines 184-202: the query parameters are validated upstream; the page query.
ListPage(p) ==
    /\ pc[p] = "idle"
    /\ \E rs \in ReviewFilters, er \in RefPatterns,
          limit \in 1..MaxLimit, offset \in 0..MaxOffset :
          \E rows \in PageResults(staging, rs, er, limit, offset) :
              loc' = [loc EXCEPT ![p] =
                        [NoLoc EXCEPT !.review_status = rs, !.external_ref = er,
                                      !.limit = limit, !.offset = offset, !.rows = rows]]
    /\ pc' = [pc EXCEPT ![p] = "ls_count"]
    /\ resp' = [resp EXCEPT ![p] = NoResp]
    /\ nreq' = nreq + 1
    /\ UNCHANGED <<staging, canonical, events, changes, clock, tx>>

\* Lines 203-206: the count query, then the response.
ListCount(p) ==
    /\ pc[p] = "ls_count"
    /\ resp' = [resp EXCEPT ![p] =
                   [NoResp EXCEPT
                      !.code = "listed",
                      !.total = CountResult(staging, loc[p].review_status,
                                            loc[p].external_ref),
                      !.limit = loc[p].limit, !.offset = loc[p].offset,
                      !.items = loc[p].rows]]
    /\ pc' = [pc EXCEPT ![p] = "idle"]
    /\ loc' = [loc EXCEPT ![p] = NoLoc]
    /\ UNCHANGED <<staging, canonical, events, changes, clock, nreq, tx>>

\* WHERE review_status <> 'PENDING'
Reviewed(S) == {r \in S : r.review_status # "PENDING"}

\* Line 283: WHERE review_status='APPROVED'
Approved(S) == {r \in S : r.review_status = "APPROVED"}

\* Lines 286-302: the item made of a row; the columns come out as they are stored.
ExportItem(r) ==
    [idempotency_key |-> r.idempotency_key, external_ref |-> r.external_ref,
     status |-> r.status, materials |-> r.materials, core_fill |-> r.core_fill]

\* Lines 282-303: one query, then the projection of its rows.
ExportApproved(p) ==
    /\ pc[p] = "idle"
    /\ \E rows \in OrderByReviewedDesc(Approved(staging)) :
          resp' = [resp EXCEPT ![p] =
                     [NoResp EXCEPT !.code = "exported",
                                    !.items = [j \in DOMAIN rows |-> ExportItem(rows[j])]]]
    /\ UNCHANGED <<staging, canonical, events, changes, clock, nreq, pc, loc, tx>>

\* The caller posts the array export_approved returned to intake, signed with the
\* shared secret (lines 98-110).
IntakeResubmit(p) ==
    /\ pc[p] = "idle"
    /\ resp[p].code = "exported"
    /\ resp[p].items # <<>>
    /\ nreq' = nreq + 1
    /\ LET raw == [json |-> "array", items |-> resp[p].items]
       IN  Verified(p, raw, HexDigest(raw))

\* ------------------------------------------------------------------ faults
IntakePcs == {"in_select", "in_insert", "in_event"}
ApprovePcs == {"rv_app_insert", "rv_app_upd", "rv_app_evt", "rv_app_commit"}
StorePcs == IntakePcs \cup ApprovePcs
              \cup {"rv_reject_upd", "rv_reject_evt", "rv_cured_upd", "rv_cured_evt"}

\* The statement a request is about to run fails in the store (connection lost,
\* statement timeout): the exception leaves the handler.
StoreFault(p) ==
    /\ pc[p] \in StorePcs
    /\ Raise(p, "StoreFault")
    /\ UNCHANGED <<clock, nreq>>

\* ------------------------------------------------------------------ specifications
\* What a request does once it has started.
Continue(p) ==
    \/ IntakeSelect(p)
    \/ IntakeInsert(p)
    \/ IntakeEvent(p)
    \/ IntakeCommit(p)
    \/ RejectUpdate(p)
    \/ RejectEvent(p)
    \/ CuredUpdate(p)
    \/ CuredEvent(p)
    \/ ApproveInsert(p)
    \/ ApproveUpdate(p)
    \/ ApproveEvent(p)
    \/ ApproveCommit(p)
    \/ StoreFault(p)

\* Requests run in parallel: any slot may start a request or take its next step.
Next ==
    \E p \in Procs :
        \/ nreq < MaxReq /\ IntakeBegin(p)
        \/ nreq < MaxReq /\ ReviewBegin(p)
        \/ IntakeDeadlock(p)
        \/ Continue(p)

Spec == Init /\ [][Next]_vars

\* Requests run one after another.
SeqNext ==
    \/ nreq < MaxReq /\ IntakeBegin(1)
    \/ nreq < MaxReq /\ ReviewBegin(1)
    \/ Continue(1)

SeqSpec == Init /\ [][SeqNext]_vars

\* Requests run one after another, and the body and the header of an intake
\* request are in the state before the signature is verified.
SigNext ==
    \/ nreq < MaxReq /\ IntakeReceive(1)
    \/ IntakeVerify(1)
    \/ nreq < MaxReq /\ ReviewBegin(1)
    \/ Continue(1)

SigSpec == Init /\ [][SigNext]_vars

\* Requests run one after another, export_approved among them; the path and the
\* body of a review request are in the state before its row is fetched.
CallNext ==
    \/ nreq < MaxReq /\ IntakeBegin(1)
    \/ nreq < MaxReq /\ ReviewReceive(1)
    \/ ReviewSelect(1)
    \/ Continue(1)
    \/ ExportApproved(1)
    \/ nreq < MaxReq /\ IntakeResubmit(1)

CallSpec == Init /\ [][CallNext]_vars

\* list_staging calls run in parallel with a sequence of intake and review
\* requests.
ListNext ==
    \/ nreq < MaxReq /\ IntakeBegin(1)
    \/ nreq < MaxReq /\ ReviewBegin(1)
    \/ Continue(1)
    \/ nreq < MaxReq /\ ListPage(2)
    \/ ListCount(2)

ListSpec == Init /\ [][ListNext]_vars

TypeOK ==
    /\ nreq \in 0..MaxReq
    /\ \A p \in Procs :
          pc[p] \in StorePcs \cup {"idle", "in_verify", "rv_select", "ls_count"}

\* ------------------------------------------------------------------ properties
RECURSIVE SumCopies(_, _)
SumCopies(B, S) ==
    IF S = {} THEN 0
    ELSE LET e == CHOOSE x \in S : TRUE IN CopiesIn(e, B) + SumCopies(B, S \ {e})

\* Events of one kind logged for one block.
EventCount(ev, id, type) ==
    SumCopies(ev, {e \in BagToSet(ev) : e.block_id = id /\ e.event_type = type})

RowsOfKey(rows, k) == {r \in rows : r.idempotency_key = k}
RowIds(rows) == {r.id : r \in rows}
Range(s) == {s[j] : j \in 1..Len(s)}

\* C1: with intake calls run one after another, every idempotency_key has at most
\* one staging row, every staging row has exactly one INGEST event and every INGEST
\* event a staging row; an identity is appended to 'created' only for an item whose
\* key no row (of an earlier call or of this batch) holds; and a successful call
\* returns exactly the identities of the rows it added, leaving one row for each key
\* of its batch.
C1_OneRecordPerKey ==
    /\ [](\A k \in Keys : Cardinality(RowsOfKey(staging, k)) <= 1)
    /\ [](\A r \in staging : EventCount(events, r.id, "INGEST") = 1)
    /\ [](\A e \in BagToSet(events) :
             e.event_type = "INGEST" => e.block_id \in RowIds(staging))
    /\ [][\A p \in Procs :
             Len(loc'[p].created) > Len(loc[p].created)
               => RowsOfKey(VisibleStaging(p), Cur(p).idempotency_key) = {}]_vars
    /\ [][\A p \in Procs :
             (pc[p] = "in_select" /\ pc'[p] = "idle" /\ resp'[p].code = "created")
               => /\ resp'[p].created = loc[p].created
                  /\ Range(loc[p].created) = RowIds(staging') \ RowIds(staging)
                  /\ \A j \in 1..Len(loc[p].items) :
                        Cardinality(RowsOfKey(staging', loc[p].items[j].idempotency_key)) = 1
                  /\ \A j \in 1..Len(loc[p].items) :
                        RowsOfKey(staging, loc[p].items[j].idempotency_key) # {}
                          => RowsOfKey(staging', loc[p].items[j].idempotency_key)
                               = RowsOfKey(staging, loc[p].items[j].idempotency_key)]_vars

\* C1 witness: a batch resubmits, with another external_ref, a key an earlier call
\* staged and repeats that key within itself; both items were skipped.
C1_Witness ==
    /\ pc[1] = "in_select"
    /\ Len(loc[1].items) = 2
    /\ loc[1].i = 3
    /\ loc[1].created = <<>>
    /\ loc[1].items[1].idempotency_key = loc[1].items[2].idempotency_key
    /\ loc[1].items[1].external_ref # loc[1].items[2].external_ref
    /\ \E r \in staging :
          /\ r.idempotency_key = loc[1].items[1].idempotency_key
          /\ r.external_ref # loc[1].items[1].external_ref

\* C2: review_status changes only from PENDING to APPROVED or to REJECTED.
C2_ReviewStatusTerminal ==
    [][\A r \in staging : \A r2 \in staging' :
          r2.id = r.id
            => \/ r2.review_status = r.review_status
               \/ /\ r.review_status = "PENDING"
                  /\ r2.review_status \in {"APPROVED", "REJECTED"}]_vars

ApproveEventRow(id) == Event(id, "final", "APPROVE", NULL)
ReviewFields(r) == <<r.review_status, r.reviewer, r.reviewed_at>>
RowOf(rows, id) == CHOOSE r \in rows : r.id = id

\* C3: the canonical store holds at most one row per non-null external_ref, and an
\* APPROVE of a record whose external_ref the canonical store already holds never
\* ends with an error of its own (only a fault of the store can fail it).
C3_OneCanonicalPerRef ==
    /\ [](\A c1 \in canonical : \A c2 \in canonical :
             (c1.external_ref # NULL /\ c1.external_ref = c2.external_ref) => c1 = c2)
    /\ [][\A p \in Procs :
             (/\ pc[p] \in ApprovePcs
              /\ resp'[p].code = "error"
              /\ StagingById(loc[p].id).external_ref # NULL
              /\ \E c \in canonical :
                    c.external_ref = StagingById(loc[p].id).external_ref)
               => resp'[p].detail = "StoreFault"]_vars

\* C3 witness: an APPROVE found its record's external_ref in the canonical store,
\* under another identity, and went on without inserting.
C3_Witness ==
    \E p \in Procs :
        /\ pc[p] = "rv_app_upd"
        /\ tx[p].open
        /\ tx[p].canon = {}
        /\ \E c \in canonical :
              /\ c.external_ref # NULL
              /\ c.external_ref = StagingById(loc[p].id).external_ref
              /\ c.id # loc[p].id

\* C4: the commit of an APPROVE of a record whose non-null external_ref the canonical
\* store holds under another identity leaves the canonical store as it is, sets that
\* record's review_status to APPROVED with the reviewer and the review time, leaves
\* the other staging rows alone and appends exactly one APPROVE event for the record.
C4_SecondApproveStillApproves ==
    [][\A p \in Procs :
          (/\ pc[p] = "rv_app_commit"
           /\ pc'[p] = "idle"
           /\ resp'[p].code = "ok"
           /\ StagingById(loc[p].id).external_ref # NULL
           /\ \E c \in canonical :
                 /\ c.external_ref = StagingById(loc[p].id).external_ref
                 /\ c.id # loc[p].id)
            => /\ canonical' = canonical
               /\ ReviewFields(RowOf(staging', loc[p].id))
                    = <<"APPROVED", loc[p].reviewer, tx[p].now>>
               /\ \A r \in staging : r.id # loc[p].id => r \in staging'
               /\ RowIds(staging') = RowIds(staging)
               /\ events' = events (+) SetToBag({ApproveEventRow(loc[p].id)})]_vars

\* C4 witness: two records with one external_ref are both APPROVED, each with its
\* APPROVE event, and the canonical store holds one row.
C4_Witness ==
    \E r1 \in staging : \E r2 \in staging :
        /\ r1.id # r2.id
        /\ r1.external_ref # NULL
        /\ r1.external_ref = r2.external_ref
        /\ r1.review_status = "APPROVED"
        /\ r2.review_status = "APPROVED"
        /\ CopiesIn(ApproveEventRow(r1.id), events) = 1
        /\ CopiesIn(ApproveEventRow(r2.id), events) = 1
        /\ Cardinality(canonical) = 1
        /\ \A p \in Procs : pc[p] = "idle"

\* C5: in every step of the committed store, for every record, the three effects of
\* an APPROVE come together or not at all: an APPROVE event is added, or a canonical
\* row of the record appears, or the record is stamped APPROVED, only in a step that
\* adds one APPROVE event, stamps the record and either adds the record's canonical
\* row or finds its external_ref already there; and an APPROVE that ends with an
\* error leaves the three tables as they were.
C5_ApproveAtomic ==
    /\ [][\A id \in RowIds(staging) :
             LET old == RowOf(staging, id)
                 new == RowOf(staging', id)
                 evt == CopiesIn(ApproveEventRow(id), events') - CopiesIn(ApproveEventRow(id), events)
                 added == {c \in canonical' \ canonical : c.id = id}
                 stamped == new.review_status = "APPROVED"
                              /\ ReviewFields(new) # ReviewFields(old)
             IN  (evt # 0 \/ added # {} \/ stamped)
                   => /\ evt = 1
                      /\ stamped
                      /\ \/ /\ Cardinality(added) = 1
                            /\ canonical' = canonical \cup added
                         \/ /\ canonical' = canonical
                            /\ old.external_ref # NULL
                            /\ \E c \in canonical : c.external_ref = old.external_ref]_vars
    /\ [][\A p \in Procs :
             (pc[p] \in ApprovePcs /\ resp'[p].code = "error") => store' = store]_vars

\* C5 witness: an APPROVE has run its three statements and not committed yet; the
\* committed tables show none of them.
C5_Witness ==
    \E p \in Procs :
        /\ pc[p] = "rv_app_commit"
        /\ tx[p].canon # {}
        /\ canonical = {}
        /\ RowOf(staging, loc[p].id).review_status = "PENDING"
        /\ CopiesIn(ApproveEventRow(loc[p].id), events) = 0

\* C6: when an intake call ends with anything but success, no staging row and no
\* event carries an identity that call drew.
C6_BatchAllOrNothing ==
    [][\A p \in Procs :
          (pc[p] \in IntakePcs /\ pc'[p] = "idle" /\ resp'[p].code # "created")
            => /\ RowIds(staging') \cap Range(loc[p].created) = {}
               /\ \A e \in BagToSet(events') : e.block_id \notin Range(loc[p].created)]_vars

\* C6 witness: a batch has inserted its first item and is at its second, which the
\* schema rejects.
C6_Witness ==
    \E p \in Procs :
        /\ pc[p] = "in_select"
        /\ loc[p].i = 2
        /\ Len(loc[p].items) = 2
        /\ ~Validates(loc[p].items[2])
        /\ tx[p].rows # {}
        /\ BagToSet(tx[p].evts) # {}

AllValid(items) == \A j \in 1..Len(items) : Validates(items[j])

\* C7: no existence check or insert of an intake batch is performed before every
\* item of the batch has passed the schema, and a batch with an item the schema
\* rejects ends with the 'bad request' outcome.
C7_ValidationFirst ==
    /\ [](\A p \in Procs :
             (pc[p] \in {"in_insert", "in_event"} \/ (pc[p] = "in_select" /\ loc[p].i > 1))
               => AllValid(loc[p].items))
    /\ [][\A p \in Procs :
             (/\ pc[p] = "in_select"
              /\ pc'[p] = "idle"
              /\ ~AllValid(loc[p].items)
              /\ resp'[p].detail # "StoreFault")
               => resp'[p].code = "bad_request"]_vars

\* C8: an intake request whose signature is not the keyed digest of its raw body
\* ends with the 'unauthorized' outcome at once, the three tables unchanged.
C8_BadSignatureUnauthorized ==
    [][\A p \in Procs :
          (/\ pc[p] = "in_verify"
           /\ pc'[p] # "in_verify"
           /\ loc[p].x_signature # HexDigest(loc[p].raw))
            => /\ pc'[p] = "idle"
               /\ resp'[p].code = "unauthorized"
               /\ store' = store]_vars

EventKinds == {"INGEST", "REJECT", "STATUS_CHANGE", "APPROVE"}

\* C9: once no request is in flight (whether the requests ended well or failed
\* at a store statement), every committed change of a staging row has exactly one
\* event: for every record and kind, as many events as changes.
C9_OneEventPerChange ==
    (\A p \in Procs : pc[p] = "idle")
      => \A id \in Ids : \A kind \in EventKinds :
            EventCount(events, id, kind) = CopiesIn(Change(id, kind), changes)

\* C10: an intake request that passed the existence check for a key and finds the
\* key staged by a concurrent request when it inserts ends as a skip, with no
\* error; and no key ever has two staging rows.
C10_ConcurrentDuplicateSkips ==
    /\ [](\A k \in Keys : Cardinality(RowsOfKey(staging, k)) <= 1)
    /\ [][\A p \in Procs :
             (/\ pc[p] = "in_insert"
              /\ pc'[p] # "in_insert"
              /\ RowsOfKey(staging, Cur(p).idempotency_key) # {})
               => \/ pc'[p] = "in_select" /\ loc'[p].i = loc[p].i + 1
                  \/ resp'[p].detail = "StoreFault"]_vars

\* C11: an APPROVE of a staging record whose review_status is REJECTED adds no
\* canonical row for that record.
C11_NoPromotionAfterRejection ==
    [][\A c \in canonical' \ canonical :
          \A r \in staging : r.id = c.id => r.review_status # "REJECTED"]_vars

StatusChangeRow(id) == Event(id, "staging", "STATUS_CHANGE", NULL)

\* C12: the UPDATE of a MARK_CURED changes nothing but the status of its record,
\* which becomes 'cured' (review_status, reviewer and reviewed_at keep their values,
\* the other staging rows, the canonical store and the event log stay as they are);
\* and the call then returns 'cured' having appended exactly one STATUS_CHANGE event
\* for the record and nothing else.
C12_MarkCuredFrame ==
    /\ [][\A p \in Procs :
             (pc[p] = "rv_cured_upd" /\ pc'[p] = "rv_cured_evt")
               => /\ RowOf(staging', loc[p].id)
                       = [RowOf(staging, loc[p].id) EXCEPT !.status = "cured"]
                  /\ \A r \in staging : r.id # loc[p].id => r \in staging'
                  /\ RowIds(staging') = RowIds(staging)
                  /\ canonical' = canonical
                  /\ events' = events]_vars
    /\ [](\A p \in Procs :
             pc[p] = "rv_cured_evt" => RowOf(staging, loc[p].id).status = "cured")
    /\ [][\A p \in Procs :
             (pc[p] = "rv_cured_evt" /\ pc'[p] = "idle" /\ resp'[p].code = "ok")
               => /\ resp'[p].state = "cured"
                  /\ events' = events (+) SetToBag({StatusChangeRow(loc[p].id)})
                  /\ staging' = staging
                  /\ canonical' = canonical]_vars

\* C12 witness: a MARK_CURED on an APPROVED record has returned; the record is
\* 'cured' and still APPROVED with its reviewer and review time, it has one
\* STATUS_CHANGE event, and its canonical row still reads 'poured'.
C12_Witness ==
    /\ pc[1] = "idle"
    /\ resp[1].state = "cured"
    /\ \E r \in staging :
          /\ r.status = "cured"
          /\ r.review_status = "APPROVED"
          /\ r.reviewer # NULL
          /\ r.reviewed_at > 0
          /\ CopiesIn(StatusChangeRow(r.id), events) = 1
          /\ \E c \in canonical : c.id = r.id /\ c.status = "poured"

\* C18: every canonical row has the identity of a staging record whose
\* review_status is APPROVED.
C18_CanonicalOnlyApproved ==
    \A c \in canonical : \E r \in staging : r.id = c.id /\ r.review_status = "APPROVED"

\* C19: the canonical store never holds two rows with one identity, and an APPROVE
\* of a record that is APPROVED already ends without an error of its own (only a
\* fault of the store can fail it).
C19_RepeatedApproveNoOp ==
    /\ [](\A id \in Ids : Cardinality({c \in canonical : c.id = id}) <= 1)
    /\ [][\A p \in Procs :
             (/\ pc[p] \in ApprovePcs
              /\ pc'[p] = "idle"
              /\ RowOf(staging, loc[p].id).review_status = "APPROVED"
              /\ resp'[p].detail # "StoreFault")
               => resp'[p].code = "ok"]_vars

\* C13: the fetch of a review whose id no staging row holds ends the call with
\* 'not found', whatever the action, and leaves the three tables as they are.
C13_UnknownIdNotFound ==
    [][\A p \in Procs :
          (/\ pc[p] = "rv_select"
           /\ pc'[p] # "rv_select"
           /\ loc[p].id \notin RowIds(staging))
            => /\ pc'[p] = "idle"
               /\ resp'[p].code = "not_found"
               /\ store' = store]_vars

\* C13 witness: a review has ended with 'not found' over a store that holds a
\* reviewed record under another identity.
C13_Witness ==
    /\ pc[1] = "idle"
    /\ resp[1].code = "not_found"
    /\ \E r \in staging : r.review_status # "PENDING"
    /\ RowIds(staging) # Ids

RowOfKey(rows, k) == CHOOSE r \in rows : r.idempotency_key = k

\* C14: an export_approved call returns one item for each staging record that is
\* APPROVED when it runs and no other item, each item the projection of its
\* record, in descending order of reviewed_at, and leaves the three tables as they
\* are.
C14_ExportExactlyApproved ==
    [][\A p \in Procs :
          (resp'[p].code = "exported" /\ resp'[p] # resp[p])
            => LET items == resp'[p].items
                   approved == {r \in staging : r.review_status = "APPROVED"}
                   row(j) == RowOfKey(approved, items[j].idempotency_key)
               IN  /\ Len(items) = Cardinality(approved)
                   /\ {items[j].idempotency_key : j \in DOMAIN items}
                        = {r.idempotency_key : r \in approved}
                   /\ \A j \in DOMAIN items : items[j] = ExportItem(row(j))
                   /\ \A i \in DOMAIN items : \A j \in DOMAIN items :
                         i < j => row(i).reviewed_at >= row(j).reviewed_at
                   /\ store' = store]_vars

\* C14 witness: an export has returned two records approved at different times,
\* the one reviewed last first.
C14_Witness ==
    /\ resp[1].code = "exported"
    /\ Len(resp[1].items) = 2
    /\ \E r1 \in staging : \E r2 \in staging :
          /\ r1.review_status = "APPROVED"
          /\ r2.review_status = "APPROVED"
          /\ r1.reviewed_at > r2.reviewed_at
          /\ resp[1].items[1].idempotency_key = r1.idempotency_key
          /\ resp[1].items[2].idempotency_key = r2.idempotency_key

\* The items are projections of records that are APPROVED now.
Exported(items) ==
    /\ items # <<>>
    /\ \A j \in DOMAIN items : items[j] \in {ExportItem(r) : r \in Approved(staging)}

\* C15: the items of an export carry materials and core_fill as structured values,
\* and an intake of exported items ends with success, an empty 'created' and the
\* three tables as they were (only a fault of the store can fail it).
C15_ExportRoundTrip ==
    /\ [](\A p \in Procs :
             resp[p].code = "exported"
               => \A j \in DOMAIN resp[p].items :
                     /\ resp[p].items[j].materials.enc = "value"
                     /\ resp[p].items[j].core_fill.enc = "value")
    /\ [][\A p \in Procs :
             (/\ pc[p] \in IntakePcs
              /\ pc'[p] = "idle"
              /\ Exported(loc[p].items)
              /\ resp'[p].detail # "StoreFault")
               => /\ resp'[p].code = "created"
                  /\ resp'[p].created = <<>>
                  /\ store' = store]_vars

\* C16: over any reachable staging store, for every filter and limit, whatever
\* pages the page query returns at the offsets 0, limit, 2*limit, ...: each page is
\* in descending order of created_at, holds matching records only and as many as
\* are left at its offset (so the pages together hold as many records as match),
\* two pages at different offsets share no record (so their union is the set of
\* matching records), and the count query gives the number of matching records.
C16_PagesPartition ==
    \A rs \in ReviewFilters : \A er \in RefPatterns : \A limit \in 1..MaxLimit :
        LET match == {r \in staging : Where(r, rs, er)}
            n == Cardinality(match)
            offs == {k * limit : k \in 0..n}
            left(o) == IF n > o THEN n - o ELSE 0
        IN  /\ CountResult(staging, rs, er) = n
            /\ \A o1 \in offs : \A pg1 \in PageResults(staging, rs, er, limit, o1) :
                  /\ Range(pg1) \subseteq match
                  /\ Len(pg1) = (IF left(o1) < limit THEN left(o1) ELSE limit)
                  /\ \A i \in DOMAIN pg1 : \A j \in DOMAIN pg1 :
                        i < j => pg1[i].created_at >= pg1[j].created_at
                  /\ \A o2 \in offs \ {o1} :
                        \A pg2 \in PageResults(staging, rs, er, limit, o2) :
                            RowIds(Range(pg1)) \cap RowIds(Range(pg2)) = {}

\* C17: no step removes or changes a canonical row, and only the commit of an
\* APPROVE adds one.
C17_CanonicalImmutable ==
    /\ [][canonical \subseteq canonical']_vars
    /\ [][canonical' # canonical
            => \E p \in Procs : /\ pc[p] = "rv_app_commit"
                                 /\ pc'[p] = "idle"
                                 /\ resp'[p].state = "APPROVED"]_vars

\* C17 witness: a record was approved and then rejected, and an export has run
\* since; the canonical row of the record is still there.
C17_Witness ==
    /\ resp[1].code = "exported"
    /\ \E c \in canonical : \E r \in staging :
          /\ r.id = c.id
          /\ r.review_status = "REJECTED"
          /\ CopiesIn(ApproveEventRow(r.id), events) = 1

\* C20: when a list_staging call returns, it returns no more items than its
\* 'total', and every item it returns is a record that matches the filter in the
\* store the count was taken over.
C20_ListSnapshot ==
    [][\A p \in Procs :
          (pc[p] = "ls_count" /\ pc'[p] = "idle")
            => /\ Len(resp'[p].items) <= resp'[p].total
               /\ \A j \in DOMAIN resp'[p].items :
                     \E r \in staging :
                         /\ r.id = resp'[p].items[j].id
                         /\ Where(r, loc[p].review_status, loc[p].external_ref)]_vars

=============================================================================
